---- MODULE Spec2Model ----
(***************************************************************************)
(* Tournament bracket and match lifecycle engine.                          *)
(*                                                                         *)
(*   models/Match          src/src/middleware/validation.js  (327-750)     *)
(*   routes/matches        src/unnamed/part_009                            *)
(*   utils/bracketGenerator src/unnamed/part_011                           *)
(*   sockets/socketHandler src/src/sockets/socketHandler.js                *)
(*                                                                         *)
(* Six specifications share the module:                                    *)
(*   Spec         one Match document and the request handlers that read    *)
(*                it (Match.findById), run a schema method on their copy   *)
(*                and save it;                                             *)
(*   SpecGen      generateBracket on one tournament, for every bracket     *)
(*                type and up to MaxN confirmed participants;              *)
(*   SpecBracket  generateBracket, played matches and concurrent           *)
(*                generateNextRound calls on a few small tournaments;      *)
(*   SpecCreate   generateBracket, run once or again, together with the    *)
(*                manual match-creation route;                             *)
(*   SpecJoin     Spec with addParticipant among the operations;           *)
(*   SpecSocket   the sessions of the socket handler and its registry of   *)
(*                match and tournament groups.                             *)
(***************************************************************************)
EXTENDS Integers, Sequences, FiniteSets, TLC

VARIABLES
    db,        \* the stored Match document
    pc,        \* per handler: "idle", "loaded" (findById returned), "done"
    req,       \* per handler: the request being served
    doc,       \* per handler: its in-memory copy of the document
    res,       \* per handler: outcome of the last request, with the stored
               \* status before and after its save
    now,       \* wall clock, in ticks
    nreq,      \* requests issued so far
    tour,      \* the Tournament document: participants, bracket type, rounds
    matches,   \* the tournament's Match collection, in creation order
    gen,       \* the generateBracket call: position, matches still to create,
               \* the slot lists its builder carries from round to round
    nr,        \* per caller: the generateNextRound call it is in
    calls,     \* calls made after the first generateBracket: progressions,
               \* repeated generations, manual creations
    sockets,   \* per session: "new", "open" or "closed", the rooms the
               \* socket is in, the join it awaits a document for
    activeConnections,  \* Map: user id -> session
    matchRooms,         \* Map: match id -> Set of user ids
    tournamentRooms,    \* Map: tournament id -> Set of user ids
    emitted    \* the events the last socket handler emitted

mvars == <<db, pc, req, doc, res, now, nreq>>
bvars == <<tour, matches, gen, nr, calls>>
svars == <<sockets, activeConnections, matchRooms, tournamentRooms, emitted>>

----------------------------------------------------------------------------
(* Bounds of the model *)

MaxRequests == 3      \* requests issued in one behaviour
MaxTime     == 2      \* clock ticks
MaxN        == 5      \* confirmed participants of a generated tournament
MaxSwissN   == 4      \* the same, for a Swiss tournament
MaxProgressions == 2  \* calls after the first generateBracket in one behaviour

\* Two request handlers may be in flight together.
Handlers == {1, 2}

\* Users 1 and 2 are the two participants a bracket builder puts into a
\* match (part_011:132-135); user 3 is a user outside the match.
Users == {1, 2, 3}

None == 0   \* an unset optional field (undefined)

----------------------------------------------------------------------------
(* The Match document, validation.js:329-600 (fields the engine touches) *)

\* result enum, validation.js:421
Results == {"player1_win", "player2_win", "draw", "no_contest", "disputed"}

\* A match as a bracket builder creates it: two participants, default
\* participant status not_ready (validation.js:367), status scheduled.
NewMatch(u1, u2) ==
    [ status       |-> "scheduled",
      participants |-> << [user |-> u1, status |-> "not_ready"],
                          [user |-> u2, status |-> "not_ready"] >>,
      startedAt    |-> None,
      endedAt      |-> None,
      duration     |-> 0,
      winner       |-> None,
      result       |-> "none",
      score        |-> 0,
      chat         |-> << >>,
      disputes     |-> << >>,
      v            |-> 0 ]

\* virtual allParticipantsReady, validation.js:627-629
allParticipantsReady(m) ==
    /\ Len(m.participants) > 0
    /\ \A i \in DOMAIN m.participants : m.participants[i].status = "ready"

\* this.participants.find(p => p.user.toString() === userId.toString());
\* 0 when there is none.
FindParticipant(m, userId) ==
    IF \E i \in DOMAIN m.participants : m.participants[i].user = userId
    THEN CHOOSE i \in DOMAIN m.participants :
            /\ m.participants[i].user = userId
            /\ \A j \in DOMAIN m.participants :
                  m.participants[j].user = userId => i <= j
    ELSE 0

\* A thrown Error, or the document as the method leaves it before save().
Throw(m, msg) == [ok |-> FALSE, err |-> msg, doc |-> m]
Return(m)     == [ok |-> TRUE, err |-> "", doc |-> m]

\* setParticipantReady with the aggregate check dropped: the match turns ready
\* as soon as the caller is ready.
setParticipantReady_CallerOnly(m, userId, ready) ==
    LET i == FindParticipant(m, userId) IN
    IF i = 0 THEN Throw(m, "User is not in this match")
    ELSE
      LET m1 == [m EXCEPT !.participants[i].status =
                              IF ready THEN "ready" ELSE "not_ready"]
          m2 == IF ready /\ m1.status = "scheduled"
                THEN [m1 EXCEPT !.status = "ready"]
                ELSE m1
      IN Return(m2)

\* setParticipantReady with the aggregate check made before the participant's
\* status is assigned.
setParticipantReady_CheckFirst(m, userId, ready) ==
    LET i == FindParticipant(m, userId) IN
    IF i = 0 THEN Throw(m, "User is not in this match")
    ELSE
      LET m1 == IF allParticipantsReady(m) /\ m.status = "scheduled"
                THEN [m EXCEPT !.status = "ready"]
                ELSE m
      IN Return([m1 EXCEPT !.participants[i].status =
                              IF ready THEN "ready" ELSE "not_ready"])

\* matchSchema.methods.setParticipantReady, validation.js:709-724
setParticipantReady(m, userId, ready) ==
    LET i == FindParticipant(m, userId) IN
    IF i = 0 THEN Throw(m, "User is not in this match")
    ELSE
      LET m1 == [m EXCEPT !.participants[i].status =
                              IF ready THEN "ready" ELSE "not_ready"]
          m2 == IF allParticipantsReady(m1) /\ m1.status = "scheduled"
                THEN [m1 EXCEPT !.status = "ready"]
                ELSE m1
      IN Return(m2)

\* matchSchema.methods.startMatch, validation.js:644-664
startMatch(m, t) ==
    IF m.status # "ready" THEN Throw(m, "Match is not ready to start")
    ELSE IF ~allParticipantsReady(m)
         THEN Throw(m, "Not all participants are ready")
    ELSE Return([m EXCEPT
            !.status = "ongoing",
            !.startedAt = t,
            !.chat = Append(@, [user |-> m.participants[1].user,
                                message |-> "Match has started!",
                                isSystemMessage |-> TRUE])])

\* endMatch without the status guard.
endMatch_NoGuard(m, winnerId, result, scores, t) ==
    Return([m EXCEPT
            !.status = "completed",
            !.endedAt = t,
            !.winner = winnerId,
            !.result = result,
            !.score = IF scores > 0 THEN scores ELSE @,
            !.chat = Append(@, [user |-> m.participants[1].user,
                                message |-> IF winnerId # None
                                            THEN "Match completed! Winner: Player"
                                            ELSE "Match completed! Winner: Draw",
                                isSystemMessage |-> TRUE])])

\* matchSchema.methods.endMatch, validation.js:667-689
\* scores is the number of score records passed (0: the default []).
endMatch(m, winnerId, result, scores, t) ==
    IF m.status # "ongoing" THEN Throw(m, "Match is not ongoing")
    ELSE Return([m EXCEPT
            !.status = "completed",
            !.endedAt = t,
            !.winner = winnerId,
            !.result = result,
            !.score = IF scores > 0 THEN scores ELSE @,
            !.chat = Append(@, [user |-> m.participants[1].user,
                                message |-> IF winnerId # None
                                            THEN "Match completed! Winner: Player"
                                            ELSE "Match completed! Winner: Draw",
                                isSystemMessage |-> TRUE])])

\* matchSchema.methods.addChatMessage, validation.js:727-734
addChatMessage(m, userId) ==
    Return([m EXCEPT !.chat = Append(@, [user |-> userId,
                                         message |-> "text",
                                         isSystemMessage |-> FALSE])])

\* matchSchema.methods.addParticipant, validation.js:692-706; the pushed
\* participant gets the default status not_ready (validation.js:365-369).
addParticipant(m, userId) ==
    IF FindParticipant(m, userId) # 0
    THEN Throw(m, "User is already in this match")
    ELSE Return([m EXCEPT
             !.participants = Append(@, [user |-> userId, status |-> "not_ready"])])

\* reportDispute without the status assignment.
reportDispute_NoStatus(m, userId) ==
    Return([m EXCEPT
        !.disputes = Append(@, [reportedBy |-> userId, status |-> "pending"])])

\* matchSchema.methods.reportDispute, validation.js:737-748; a dispute's
\* status defaults to pending (validation.js:508-512).
reportDispute(m, userId) ==
    Return([m EXCEPT
        !.disputes = Append(@, [reportedBy |-> userId, status |-> "pending"]),
        !.status = "disputed"])

\* new Date(), validation.js:654, 673: the clock is read in milliseconds.  A
\* tick of the model's clock is half a second.
Date(t) == 500 * t

\* the divisor of validation.js:637
MillisPerSecond == 1000

\* Math.round(a / b) for b > 0: the nearest integer, halves rounded up.
Round(a, b) == (2 * a + b) \div (2 * b)

\* matchSchema.pre('save'), validation.js:632-641
preSave(m) ==
    IF m.startedAt # None /\ m.endedAt # None
    THEN [m EXCEPT !.duration = Round(m.endedAt - m.startedAt, MillisPerSecond)]
    ELSE m

----------------------------------------------------------------------------
(* document.save(): Mongoose sends the paths modified since the document   *)
(* was loaded, not the whole document: $set for assigned fields, $push for *)
(* array pushes.  A positional $set into an array element, or a $set of a  *)
(* whole array, is guarded by the version key __v the document was loaded  *)
(* with (VersionError when it moved); a $push or an array $set increments  *)
(* __v.  validation.js:663, 688, 705, 723, 733, 747                        *)

Pushed(loaded, local) == SubSeq(local, Len(loaded) + 1, Len(local))

PositionalSets(loaded, local) ==
    { i \in DOMAIN loaded.participants :
        local.participants[i].status # loaded.participants[i].status }

VersionWhere(loaded, local) ==
    \/ PositionalSets(loaded, local) # {}
    \/ local.score # loaded.score

VersionInc(loaded, local) ==
    \/ Len(local.chat) > Len(loaded.chat)
    \/ Len(local.disputes) > Len(loaded.disputes)
    \/ Len(local.participants) > Len(loaded.participants)
    \/ local.score # loaded.score

Pick(stored, loaded, local) == IF local # loaded THEN local ELSE stored

\* save() writing the whole document as the handler holds it.
Save_WholeDocument(stored, loaded, local) ==
    IF VersionWhere(loaded, local) /\ stored.v # loaded.v
    THEN [ok |-> FALSE, doc |-> stored]
    ELSE [ok |-> TRUE, doc |->
             [local EXCEPT !.v = IF VersionInc(loaded, local)
                                 THEN stored.v + 1 ELSE stored.v]]

Save(stored, loaded, local) ==
    IF VersionWhere(loaded, local) /\ stored.v # loaded.v
    THEN [ok |-> FALSE, doc |-> stored]
    ELSE [ok |-> TRUE, doc |->
        [ status    |-> Pick(stored.status, loaded.status, local.status),
          startedAt |-> Pick(stored.startedAt, loaded.startedAt, local.startedAt),
          endedAt   |-> Pick(stored.endedAt, loaded.endedAt, local.endedAt),
          duration  |-> Pick(stored.duration, loaded.duration, local.duration),
          winner    |-> Pick(stored.winner, loaded.winner, local.winner),
          result    |-> Pick(stored.result, loaded.result, local.result),
          score     |-> Pick(stored.score, loaded.score, local.score),
          chat      |-> stored.chat \o Pushed(loaded.chat, local.chat),
          disputes  |-> stored.disputes \o Pushed(loaded.disputes, local.disputes),
          participants |->
              [ i \in DOMAIN stored.participants |->
                  IF i \in PositionalSets(loaded, local)
                  THEN [stored.participants[i] EXCEPT
                           !.status = local.participants[i].status]
                  ELSE stored.participants[i] ]
              \o Pushed(loaded.participants, local.participants),
          v |-> IF VersionInc(loaded, local) THEN stored.v + 1 ELSE stored.v ]]

----------------------------------------------------------------------------
(* Request handlers.  Each one awaits Match.findById, then runs the schema *)
(* method on its own copy and saves it; other handlers run in between.     *)

NoReq == [op |-> "none", user |-> None, ready |-> FALSE,
          winner |-> None, result |-> "none", scores |-> 0]

\* Request bodies: ready is a boolean (part_009:292); winner is optional and
\* result is one of the enum (part_009:419-421); scores is optional.
EndInputs ==
    { <<1, "player1_win", 0>>, <<1, "player1_win", 1>>, <<2, "player2_win", 0>>,
      <<3, "player1_win", 0>>, <<None, "draw", 0>>, <<None, "no_contest", 0>> }

Requests ==
    { [NoReq EXCEPT !.op = "setReady", !.user = u, !.ready = b] :
          u \in {1, 2}, b \in BOOLEAN }
    \cup { [NoReq EXCEPT !.op = "setReady", !.user = 3, !.ready = TRUE] }
    \cup { [NoReq EXCEPT !.op = "start"] }
    \cup { [NoReq EXCEPT !.op = "end", !.winner = e[1], !.result = e[2],
                         !.scores = e[3]] : e \in EndInputs }
    \cup { [NoReq EXCEPT !.op = "chat", !.user = u] : u \in {2, 3} }
    \cup { [NoReq EXCEPT !.op = "dispute", !.user = u] : u \in {1} }

\* Matches the engine can hold when the first modelled request arrives: as
\* created; after both participants set ready; after a Start at the first tick.
ReadyMatch ==
    setParticipantReady(
        setParticipantReady(NewMatch(1, 2), 1, TRUE).doc, 2, TRUE).doc

OngoingMatch == [startMatch(ReadyMatch, Date(1)).doc EXCEPT !.v = 1]

InitialMatches == {NewMatch(1, 2), ReadyMatch, OngoingMatch}

\* What a request came to: "ok" or the error thrown, and the stored match
\* status just before and just after the handler's save.
Outcome(out, from, to) == [out |-> out, from |-> from, to |-> to]

\* A handler that holds no document.
NoDoc == NewMatch(None, None)

MInit ==
    /\ db \in InitialMatches
    /\ pc = [h \in Handlers |-> "idle"]
    /\ req = [h \in Handlers |-> NoReq]
    /\ doc = [h \in Handlers |-> NoDoc]
    /\ res = [h \in Handlers |-> Outcome("none", "none", "none")]
    /\ now = 1
    /\ nreq = 0

\* await Match.findById(id): part_009:304, 361, 437; socketHandler.js:189, 232
Load(h) ==
    /\ pc[h] # "loaded"
    /\ nreq < MaxRequests
    /\ \E r \in Requests : req' = [req EXCEPT ![h] = r]
    /\ doc' = [doc EXCEPT ![h] = db]
    /\ pc' = [pc EXCEPT ![h] = "loaded"]
    /\ res' = [res EXCEPT ![h] = Outcome("pending", "none", "none")]
    /\ nreq' = nreq + 1
    /\ UNCHANGED <<db, now>>
    /\ UNCHANGED <<bvars, svars>>

\* The method's outcome r, then save() of the handler's copy.
Finish(h, r) ==
    LET s == Save(db, doc[h], preSave(r.doc)) IN
    /\ pc' = [pc EXCEPT ![h] = "done"]
    /\ doc' = [doc EXCEPT ![h] = NoDoc]
    /\ IF ~r.ok
       THEN /\ res' = [res EXCEPT ![h] = Outcome(r.err, db.status, db.status)]
            /\ UNCHANGED db
       ELSE IF ~s.ok
       THEN /\ res' = [res EXCEPT ![h] =
                          Outcome("VersionError", db.status, db.status)]
            /\ UNCHANGED db
       ELSE /\ res' = [res EXCEPT ![h] = Outcome("ok", db.status, s.doc.status)]
            /\ db' = s.doc
    /\ UNCHANGED <<req, now, nreq>>
    /\ UNCHANGED <<bvars, svars>>

\* POST /:id/ready, part_009:304-324; socket 'setReady', socketHandler.js:232-246
SetReady(h) ==
    /\ pc[h] = "loaded" /\ req[h].op = "setReady"
    /\ Finish(h, setParticipantReady(doc[h], req[h].user, req[h].ready))

\* POST /:id/start, part_009:361-382
Start(h) ==
    /\ pc[h] = "loaded" /\ req[h].op = "start"
    /\ Finish(h, startMatch(doc[h], Date(now)))

\* POST /:id/end, part_009:437-460
End(h) ==
    /\ pc[h] = "loaded" /\ req[h].op = "end"
    /\ Finish(h, endMatch(doc[h], req[h].winner, req[h].result,
                          req[h].scores, Date(now)))

\* socket 'matchMessage', socketHandler.js:189-203
Chat(h) ==
    /\ pc[h] = "loaded" /\ req[h].op = "chat"
    /\ Finish(h, IF FindParticipant(doc[h], req[h].user) = 0
                 THEN Throw(doc[h], "Only participants can send messages")
                 ELSE addChatMessage(doc[h], req[h].user))

\* reportDispute called on a loaded document, validation.js:737-748
Dispute(h) ==
    /\ pc[h] = "loaded" /\ req[h].op = "dispute"
    /\ Finish(h, reportDispute(doc[h], req[h].user))

\* Time passes before a handler reads new Date() (validation.js:654, 673):
\* startMatch and endMatch read it once their guards have passed.
Tick ==
    /\ now < MaxTime
    /\ \E h \in Handlers :
          /\ pc[h] = "loaded"
          /\ \/ req[h].op = "start" /\ startMatch(doc[h], Date(now)).ok
             \/ req[h].op = "end" /\ doc[h].status = "ongoing"
    /\ now' = now + 1
    /\ UNCHANGED <<db, pc, req, doc, res, nreq>>
    /\ UNCHANGED <<bvars, svars>>

\* Users who ask to join: one who is in the match and one who is not.
Joiners == {2, 3}

\* A caller of addParticipant loads the match first, like every handler.
LoadJoin(h) ==
    /\ pc[h] # "loaded"
    /\ nreq < MaxRequests
    /\ \E u \in Joiners :
          req' = [req EXCEPT ![h] = [NoReq EXCEPT !.op = "join", !.user = u]]
    /\ doc' = [doc EXCEPT ![h] = db]
    /\ pc' = [pc EXCEPT ![h] = "loaded"]
    /\ res' = [res EXCEPT ![h] = Outcome("pending", "none", "none")]
    /\ nreq' = nreq + 1
    /\ UNCHANGED <<db, now>>
    /\ UNCHANGED <<bvars, svars>>

\* match.addParticipant(userId) on the loaded document, validation.js:692-706
AddParticipant(h) ==
    /\ pc[h] = "loaded" /\ req[h].op = "join"
    /\ Finish(h, addParticipant(doc[h], req[h].user))

MNext ==
    \/ \E h \in Handlers : Load(h)
    \/ \E h \in Handlers : SetReady(h)
    \/ \E h \in Handlers : Start(h)
    \/ \E h \in Handlers : End(h)
    \/ \E h \in Handlers : Chat(h)
    \/ \E h \in Handlers : Dispute(h)
    \/ Tick


----------------------------------------------------------------------------
(* utils/bracketGenerator, src/unnamed/part_011 *)

BracketTypes == {"single_elimination", "double_elimination", "round_robin", "swiss"}

\* (a.seed || 999), part_011:67
MissingSeedKey == 999

SeedKey(p) == IF p.seed = None THEN MissingSeedKey ELSE p.seed

\* Array.prototype.sort with the comparator of part_011:67 (stable).
RECURSIVE InsertBySeed(_, _)
InsertBySeed(sorted, p) ==
    IF sorted = << >> THEN << p >>
    ELSE IF SeedKey(sorted[Len(sorted)]) - SeedKey(p) <= 0
         THEN Append(sorted, p)
         ELSE Append(InsertBySeed(SubSeq(sorted, 1, Len(sorted) - 1), p),
                     sorted[Len(sorted)])

RECURSIVE SortBySeed(_)
SortBySeed(ps) ==
    IF ps = << >> THEN << >>
    ELSE InsertBySeed(SortBySeed(SubSeq(ps, 1, Len(ps) - 1)), ps[Len(ps)])

\* The filter dropped: every participant counts.
Confirmed_All(ps) == ps

\* participants.filter(p => p.status === 'confirmed'), part_011:12
RECURSIVE Confirmed(_)
Confirmed(ps) ==
    IF ps = << >> THEN << >>
    ELSE (IF ps[1].status = "confirmed" THEN << ps[1] >> ELSE << >>)
         \o Confirmed(Tail(ps))

\* seedParticipants, part_011:64-82.  perm is the permutation the
\* Math.random() draws of the shuffle produce.
seedParticipants(ps, perm) ==
    IF \E i \in DOMAIN ps : ps[i].seed # None
    THEN SortBySeed(ps)
    ELSE [i \in DOMAIN ps |-> [ps[perm[i]] EXCEPT !.seed = i]]

\* Math.pow(2, Math.ceil(Math.log2(n))), part_011:99
RECURSIVE PowerOf2From(_, _)
PowerOf2From(p, n) == IF p >= n THEN p ELSE PowerOf2From(2 * p, n)

nextPowerOf2(n) == PowerOf2From(1, n)

\* The slots of the single-elimination builder: a participant, a bye
\* ({bye: true, seed}), or the {matchId, round} object pushed for a created
\* match, which has no user, no seed and no bye field.
ParticipantSlot(p) == [kind |-> "participant", user |-> p.user, seed |-> p.seed]
ByeSlot(seed)      == [kind |-> "bye", user |-> None, seed |-> seed]
MatchRefSlot       == [kind |-> "matchRef", user |-> None, seed |-> None]

IsBye(slot) == slot.kind = "bye"

\* The byes numbered from 1.
WithByes_SeedFromOne(ps) ==
    [i \in 1..Len(ps) |-> ParticipantSlot(ps[i])]
    \o [i \in 1..(nextPowerOf2(Len(ps)) - Len(ps)) |-> ByeSlot(i)]

\* part_011:102-104
WithByes(ps) ==
    [i \in 1..Len(ps) |-> ParticipantSlot(ps[i])]
    \o [i \in 1..(nextPowerOf2(Len(ps)) - Len(ps)) |-> ByeSlot(Len(ps) + i)]

\* The document Match.create is given (part_011:127-139, 175-187, 218-230,
\* 303-315): bracketPosition is <<prefix, round, index>>.
MatchData(matchNumber, round, position, p1, p2) ==
    [ matchNumber     |-> matchNumber,
      round           |-> round,
      bracketPosition |-> position,
      participants    |-> << [user |-> p1.user, seed |-> p1.seed],
                             [user |-> p2.user, seed |-> p2.seed] >>,
      status          |-> "scheduled",
      winner          |-> None ]

\* Match.create validates the document: participants.user is required
\* (validation.js:352-356).
ValidMatch(data) ==
    \A i \in DOMAIN data.participants : data.participants[i].user # None

\* What a builder did: the Match.create calls that succeeded, in order, the
\* error it threw ("" when it returned), and the slot lists it carried from
\* round to round.
Built(created, error, lists) ==
    [created |-> created, error |-> error, lists |-> lists]

\* The pairing loop with a pairing of one bye dropped like a pairing of two.
RECURSIVE PairSlots_DropByePair(_, _, _, _, _, _)
PairSlots_DropByePair(cur, i, round, matchNumber, roundMatches, created) ==
    IF i > Len(cur)
    THEN [error |-> "", roundMatches |-> roundMatches,
          created |-> created, matchNumber |-> matchNumber]
    ELSE IF i + 1 > Len(cur)
    THEN [error |-> "TypeError", roundMatches |-> roundMatches,
          created |-> created, matchNumber |-> matchNumber]
    ELSE
      LET participant1 == cur[i]
          participant2 == cur[i + 1]
          data == MatchData(matchNumber, round, <<"R", round, ((i - 1) \div 2) + 1>>,
                            participant1, participant2)
      IN
      IF IsBye(participant1) \/ IsBye(participant2)
      THEN PairSlots_DropByePair(cur, i + 2, round, matchNumber, roundMatches,
                                 created)
      ELSE IF ~ValidMatch(data)
      THEN [error |-> "ValidationError", roundMatches |-> roundMatches,
            created |-> created, matchNumber |-> matchNumber]
      ELSE PairSlots_DropByePair(cur, i + 2, round, matchNumber + 1,
                                 Append(roundMatches, MatchRefSlot),
                                 Append(created, data))

\* The pairing loop of one round, part_011:110-143, from index i (1-based).
RECURSIVE PairSlots(_, _, _, _, _, _)
PairSlots(cur, i, round, matchNumber, roundMatches, created) ==
    IF i > Len(cur)
    THEN [error |-> "", roundMatches |-> roundMatches,
          created |-> created, matchNumber |-> matchNumber]
    ELSE IF i + 1 > Len(cur)
    \* participant2 is undefined: participant2.bye throws
    THEN [error |-> "TypeError", roundMatches |-> roundMatches,
          created |-> created, matchNumber |-> matchNumber]
    ELSE
      LET participant1 == cur[i]
          participant2 == cur[i + 1]
          data == MatchData(matchNumber, round, <<"R", round, ((i - 1) \div 2) + 1>>,
                            participant1, participant2)
      IN
      IF IsBye(participant1) /\ IsBye(participant2)
      THEN PairSlots(cur, i + 2, round, matchNumber, roundMatches, created)
      ELSE IF IsBye(participant1) \/ IsBye(participant2)
      THEN PairSlots(cur, i + 2, round, matchNumber,
                     Append(roundMatches,
                            IF IsBye(participant1) THEN participant2
                            ELSE participant1),
                     created)
      ELSE IF ~ValidMatch(data)
      THEN [error |-> "ValidationError", roundMatches |-> roundMatches,
            created |-> created, matchNumber |-> matchNumber]
      ELSE PairSlots(cur, i + 2, round, matchNumber + 1,
                     Append(roundMatches, MatchRefSlot),
                     Append(created, data))

\* The while loop of part_011:106-147.
RECURSIVE EliminationRounds(_, _, _, _, _)
EliminationRounds(cur, round, matchNumber, created, lists) ==
    IF Len(cur) <= 1 THEN Built(created, "", lists)
    ELSE
      LET r == PairSlots(cur, 1, round, matchNumber, << >>, created) IN
      IF r.error # "" THEN Built(r.created, r.error, lists)
      ELSE EliminationRounds(r.roundMatches, round + 1, r.matchNumber,
                             r.created, Append(lists, r.roundMatches))

\* generateSingleEliminationBracket, part_011:87-150
generateSingleEliminationBracket(ps) ==
    EliminationRounds(WithByes(ps), 1, 1, << >>, << WithByes(ps) >>)

\* generateDoubleEliminationBracket, part_011:155-162
generateDoubleEliminationBracket(ps) == generateSingleEliminationBracket(ps)

\* Math.ceil(participants.length / 2), part_011:192
CeilHalf(n) == (n + 1) \div 2

\* The nested loops with the inner bound one short (j < length - 1).
RECURSIVE RoundRobinLoop_ShortInner(_, _, _, _, _, _)
RoundRobinLoop_ShortInner(ps, i, j, matchNumber, round, created) ==
    IF i > Len(ps) THEN Built(created, "", << >>)
    ELSE IF j > Len(ps) - 1
    THEN RoundRobinLoop_ShortInner(ps, i + 1, i + 2, matchNumber, round, created)
    ELSE
      LET data == MatchData(matchNumber, round, <<"RR", None, matchNumber>>,
                            ps[i], ps[j])
          next == matchNumber + 1
      IN RoundRobinLoop_ShortInner(ps, i, j + 1, next,
                        IF next % CeilHalf(Len(ps)) = 1 THEN round + 1 ELSE round,
                        Append(created, data))

\* The nested loops of part_011:173-196, from indices i < j (1-based).
RECURSIVE RoundRobinLoop(_, _, _, _, _, _)
RoundRobinLoop(ps, i, j, matchNumber, round, created) ==
    IF i > Len(ps) THEN Built(created, "", << >>)
    ELSE IF j > Len(ps)
    THEN RoundRobinLoop(ps, i + 1, i + 2, matchNumber, round, created)
    ELSE
      LET data == MatchData(matchNumber, round, <<"RR", None, matchNumber>>,
                            ps[i], ps[j])
          next == matchNumber + 1
      IN RoundRobinLoop(ps, i, j + 1, next,
                        IF next % CeilHalf(Len(ps)) = 1 THEN round + 1 ELSE round,
                        Append(created, data))

\* generateRoundRobinBracket, part_011:167-199
generateRoundRobinBracket(ps) == RoundRobinLoop(ps, 1, 2, 1, 1, << >>)

\* The Swiss loop advancing by one slot instead of two.
RECURSIVE SwissLoop_Overlapping(_, _, _, _)
SwissLoop_Overlapping(shuffled, i, matchNumber, created) ==
    IF i > Len(shuffled) THEN Built(created, "", << >>)
    ELSE IF i + 1 <= Len(shuffled)
    THEN SwissLoop_Overlapping(shuffled, i + 1, matchNumber + 1,
                   Append(created,
                          MatchData(matchNumber, 1, <<"S", 1, ((i - 1) \div 2) + 1>>,
                                    shuffled[i], shuffled[i + 1])))
    ELSE SwissLoop_Overlapping(shuffled, i + 1, matchNumber, created)

\* The loop of part_011:216-234 over the shuffled list, from index i.
RECURSIVE SwissLoop(_, _, _, _)
SwissLoop(shuffled, i, matchNumber, created) ==
    IF i > Len(shuffled) THEN Built(created, "", << >>)
    ELSE IF i + 1 <= Len(shuffled)
    THEN SwissLoop(shuffled, i + 2, matchNumber + 1,
                   Append(created,
                          MatchData(matchNumber, 1, <<"S", 1, ((i - 1) \div 2) + 1>>,
                                    shuffled[i], shuffled[i + 1])))
    ELSE SwissLoop(shuffled, i + 2, matchNumber, created)

\* generateSwissBracket, part_011:204-237.  perm is the order the sort with a
\* random comparator (part_011:213) leaves the participants in.
generateSwissBracket(ps, perm) ==
    SwissLoop([i \in DOMAIN ps |-> ps[perm[i]]], 1, 1, << >>)

\* The switch of generateBracket, part_011:23-38.
BuildBracket(type, ps, perm) ==
    CASE type = "single_elimination" -> generateSingleEliminationBracket(ps)
      [] type = "double_elimination" -> generateDoubleEliminationBracket(ps)
      [] type = "round_robin" -> generateRoundRobinBracket(ps)
      [] type = "swiss" -> generateSwissBracket(ps, perm)
      [] OTHER -> Built(<< >>, "Unsupported bracket type", << >>)

\* organizeBracketRounds, part_011:242-260: ms are the created matches (with
\* their ids); the rounds in ascending round number, each listing its
\* matches in creation order.
RoundNumbers(ms) == { ms[i].round : i \in DOMAIN ms }

RECURSIVE IdsOfRound(_, _)
IdsOfRound(ms, r) ==
    IF ms = << >> THEN << >>
    ELSE (IF ms[1].round = r THEN << ms[1].id >> ELSE << >>)
         \o IdsOfRound(Tail(ms), r)

RECURSIVE RoundsAscending(_, _)
RoundsAscending(ms, rs) ==
    IF rs = {} THEN << >>
    ELSE LET r == CHOOSE x \in rs : \A y \in rs : x <= y IN
         << [roundNumber |-> r, matches |-> IdsOfRound(ms, r)] >>
         \o RoundsAscending(ms, rs \ {r})

\* organizeBracketRounds listing the first round only.
organizeBracketRounds_FirstOnly(ms) == RoundsAscending(ms, RoundNumbers(ms) \cap {1})

organizeBracketRounds(ms) == RoundsAscending(ms, RoundNumbers(ms))

----------------------------------------------------------------------------
(* generateBracket as a process: every await Match.create is a write other *)
(* callers can see before the next one.                                    *)

MatchUsers(m) == { m.participants[i].user : i \in DOMAIN m.participants }

StoredMatch(data, id) ==
    [ id              |-> id,
      matchNumber     |-> data.matchNumber,
      round           |-> data.round,
      bracketPosition |-> data.bracketPosition,
      participants    |-> data.participants,
      status          |-> data.status,
      winner          |-> data.winner ]

\* Tournament participants (README.md:466-496): N confirmed users 1..N.
\*   "unseeded"     no participant carries a seed
\*   "seeded"       user i carries seed N + 1 - i
\*   "unconfirmed"  user i carries seed i, and a registered user N + 1 comes
\*                  first
\*   "mixed"        user 1 carries seed 1000, user 2 none, user i seed i - 2
SeedConfigs == {"unseeded", "seeded", "unconfirmed", "mixed"}

\* The largest tournament of a type the model generates.
MaxOfType(type) == IF type = "swiss" THEN MaxSwissN ELSE MaxN

TournamentParticipants(n, cfg) ==
    (IF cfg = "unconfirmed"
     THEN << [user |-> n + 1, seed |-> None, status |-> "registered"] >>
     ELSE << >>)
    \o [i \in 1..n |-> [user |-> i,
                        seed |-> CASE cfg = "seeded" -> n + 1 - i
                                   [] cfg = "unconfirmed" -> i
                                   [] cfg = "mixed" ->
                                        (CASE i = 1 -> 1000
                                           [] i = 2 -> None
                                           [] OTHER -> i - 2)
                                   [] OTHER -> None,
                        status |-> "confirmed"]]

NewTournament(n, cfg, type) ==
    [ participants |-> TournamentParticipants(n, cfg),
      type         |-> type,
      rounds       |-> << >> ]

IdleGen == [pc |-> "idle", todo |-> << >>, error |-> "", made |-> << >>,
            lists |-> << >>]

Identity(n) == [i \in 1..n |-> i]

\* The orders a shuffle of n elements can produce.
Shuffles(n, shuffled) == IF shuffled THEN Permutations(1..n) ELSE {Identity(n)}

\* generateBracket up to the builder's first await, part_011:9-38
GB_Begin ==
    /\ gen.pc = "idle"
    /\ LET confirmedParticipants == Confirmed(tour.participants)
           n == Len(confirmedParticipants)
           unseeded == \A i \in 1..n : confirmedParticipants[i].seed = None
       IN
       IF n < 2
       THEN gen' = [IdleGen EXCEPT !.pc = "failed",
                       !.error = "At least 2 confirmed participants required to generate bracket"]
       ELSE \E perm \in Shuffles(n, unseeded) :
            \E order \in Shuffles(n, tour.type = "swiss") :
               LET plan == BuildBracket(tour.type,
                               seedParticipants(confirmedParticipants, perm),
                               order)
               IN gen' = [pc |-> "creating", todo |-> plan.created,
                          error |-> plan.error, made |-> << >>,
                          lists |-> plan.lists]
    /\ UNCHANGED <<tour, matches, nr, calls>>
    /\ UNCHANGED <<mvars, svars>>

\* await Match.create(...), part_011:127, 175, 218
GB_Create ==
    /\ gen.pc = "creating" /\ gen.todo # << >>
    /\ LET m == StoredMatch(Head(gen.todo), Len(matches) + 1) IN
       /\ matches' = Append(matches, m)
       /\ gen' = [gen EXCEPT !.todo = Tail(@), !.made = Append(@, m)]
    /\ UNCHANGED <<tour, nr, calls>>
    /\ UNCHANGED <<mvars, svars>>

\* The builder returns or throws: part_011:40-58
GB_End ==
    /\ gen.pc = "creating" /\ gen.todo = << >>
    /\ IF gen.error # ""
       THEN /\ gen' = [gen EXCEPT !.pc = "failed"]
            /\ UNCHANGED tour
       ELSE /\ gen' = [gen EXCEPT !.pc = "done"]
            /\ tour' = [tour EXCEPT !.rounds = organizeBracketRounds(gen.made)]
    /\ UNCHANGED <<matches, nr, calls>>
    /\ UNCHANGED <<mvars, svars>>

----------------------------------------------------------------------------
(* Round progression: generateNextRound, part_011:265-327.  Every await is *)
(* a separate read or write of the Match collection.                       *)

\* Two callers may trigger progression together.
Callers == {1, 2}

\* Math.min over seeds of which one is undefined
NaN == -1

IdleCall ==
    [ pc |-> "idle", currentRound |-> 0, completedMatches |-> << >>,
      winners |-> << >>, matchNumber |-> 0, i |-> 0, made |-> 0,
      out |-> "none", winner |-> None ]

\* getCurrentRound, part_011:332-338
getCurrentRound(ms) ==
    IF ms = << >> THEN 1
    ELSE CHOOSE r \in RoundNumbers(ms) : \A q \in RoundNumbers(ms) : q <= r

\* Match.find({tournament, round, status: 'completed'}), part_011:268-272
RECURSIVE FindCompleted(_, _)
FindCompleted(ms, round) ==
    IF ms = << >> THEN << >>
    ELSE (IF ms[1].round = round /\ ms[1].status = "completed"
          THEN << ms[1] >> ELSE << >>)
         \o FindCompleted(Tail(ms), round)

\* The count restricted to the round's completed matches.
CountRound_CompletedOnly(ms, round) ==
    Cardinality({ k \in DOMAIN ms : ms[k].round = round
                                      /\ ms[k].status = "completed" })

\* Match.countDocuments({tournament, round}), part_011:275-278
CountRound(ms, round) == Cardinality({ k \in DOMAIN ms : ms[k].round = round })

\* Math.min(...match.participants.map(p => p.seed)), part_011:289
MinSeed(m) ==
    LET seeds == { m.participants[k].seed : k \in DOMAIN m.participants } IN
    IF None \in seeds THEN NaN
    ELSE CHOOSE x \in seeds : \A y \in seeds : x <= y

\* part_011:285-290
RECURSIVE Winners(_)
Winners(completed) ==
    IF completed = << >> THEN << >>
    ELSE (IF completed[1].winner # None
          THEN << [user |-> completed[1].winner, seed |-> MinSeed(completed[1])] >>
          ELSE << >>)
         \o Winners(Tail(completed))

\* Match.create of a next-round match also casts seed to Number: NaN is
\* rejected (validation.js:361-363).
ValidNextMatch(data) ==
    /\ ValidMatch(data)
    /\ \A k \in DOMAIN data.participants : data.participants[k].seed # NaN

\* part_011:267.  Progression is triggered on a tournament whose
\* generateBracket call has returned or thrown.
NR_GetCurrentRound(p) ==
    /\ gen.pc \in {"done", "failed"}
    /\ nr[p].pc \in {"idle", "done", "failed"}
    /\ calls < MaxProgressions
    /\ calls' = calls + 1
    /\ nr' = [nr EXCEPT ![p] = [IdleCall EXCEPT
                  !.pc = "find", !.currentRound = getCurrentRound(matches)]]
    /\ UNCHANGED <<tour, matches, gen>>
    /\ UNCHANGED <<mvars, svars>>

\* part_011:268-272
NR_FindCompleted(p) ==
    /\ nr[p].pc = "find"
    /\ nr' = [nr EXCEPT ![p].pc = "count",
                        ![p].completedMatches =
                            FindCompleted(matches, nr[p].currentRound)]
    /\ UNCHANGED <<tour, matches, gen, calls>>
    /\ UNCHANGED <<mvars, svars>>

\* part_011:275-295
NR_CountRound(p) ==
    /\ nr[p].pc = "count"
    /\ LET winners == Winners(nr[p].completedMatches) IN
       IF Len(nr[p].completedMatches) # CountRound(matches, nr[p].currentRound)
       THEN nr' = [nr EXCEPT ![p].pc = "failed",
                     ![p].completedMatches = << >>,
                     ![p].out = "Not all matches in current round are completed"]
       ELSE IF Len(winners) < 2
       THEN nr' = [nr EXCEPT ![p].pc = "done", ![p].out = "completed",
                     ![p].completedMatches = << >>,
                     ![p].winner = IF winners = << >> THEN None
                                   ELSE winners[1].user]
       ELSE nr' = [nr EXCEPT ![p].pc = "number", ![p].winners = winners,
                             ![p].completedMatches = << >>]
    /\ UNCHANGED <<tour, matches, gen, calls>>
    /\ UNCHANGED <<mvars, svars>>

\* part_011:299
NR_CountAll(p) ==
    /\ nr[p].pc = "number"
    /\ nr' = [nr EXCEPT ![p].pc = "create", ![p].i = 1,
                        ![p].matchNumber = Len(matches) + 1]
    /\ UNCHANGED <<tour, matches, gen, calls>>
    /\ UNCHANGED <<mvars, svars>>

\* One pass of the loop that creates a match, part_011:301-318
NR_Create(p) ==
    /\ nr[p].pc = "create"
    /\ nr[p].i + 1 <= Len(nr[p].winners)
    /\ LET c == nr[p]
           data == MatchData(c.matchNumber, c.currentRound + 1,
                             <<"R", c.currentRound + 1, ((c.i - 1) \div 2) + 1>>,
                             c.winners[c.i], c.winners[c.i + 1])
           m == StoredMatch(data, Len(matches) + 1)
       IN
       IF ~ValidNextMatch(data)
       THEN /\ nr' = [nr EXCEPT ![p].pc = "failed", ![p].out = "ValidationError",
                                ![p].winners = << >>]
            /\ UNCHANGED matches
       ELSE /\ matches' = Append(matches, m)
            /\ nr' = [nr EXCEPT ![p].i = c.i + 2,
                                ![p].matchNumber = c.matchNumber + 1,
                                ![p].made = c.made + 1]
    /\ UNCHANGED <<tour, gen, calls>>
    /\ UNCHANGED <<mvars, svars>>

\* The loop is over: return { completed: false, matches }, part_011:321
NR_Return(p) ==
    /\ nr[p].pc = "create"
    /\ nr[p].i + 1 > Len(nr[p].winners)
    /\ nr' = [nr EXCEPT ![p].pc = "done", ![p].out = "next round",
                        ![p].winners = << >>]
    /\ UNCHANGED <<tour, matches, gen, calls>>
    /\ UNCHANGED <<mvars, svars>>

\* A match of a generated bracket is played to its end: endMatch leaves it
\* completed with the winner the End request names (validation.js:672-675).
CompleteMatch(k, winnerId) ==
    /\ gen.pc \in {"done", "failed"}
    /\ k \in DOMAIN matches
    /\ matches[k].status = "scheduled"
    /\ winnerId \in MatchUsers(matches[k]) \cup {None}
    /\ matches' = [matches EXCEPT ![k].status = "completed",
                                  ![k].winner = winnerId]
    /\ UNCHANGED <<tour, gen, nr, calls>>
    /\ UNCHANGED <<mvars, svars>>

\* POST /tournaments/:id/generate-bracket once more: the route checks only
\* that registration is closed (README.md:1049-1054), which generateBracket
\* does not change.
GB_Again ==
    /\ gen.pc \in {"done", "failed"}
    /\ calls < MaxProgressions
    /\ calls' = calls + 1
    /\ gen' = IdleGen
    /\ UNCHANGED <<tour, matches, nr>>
    /\ UNCHANGED <<mvars, svars>>

\* POST / (create match), part_009:168-193: the participants named are
\* confirmed participants of the tournament; then
\* matchCount = await Match.countDocuments({ tournament }).
MC_Count(p) ==
    /\ nr[p].pc \in {"idle", "done", "failed"}
    /\ calls < MaxProgressions
    /\ Len(Confirmed(tour.participants)) >= 2
    /\ calls' = calls + 1
    /\ nr' = [nr EXCEPT ![p] = [IdleCall EXCEPT
                  !.pc = "manual", !.matchNumber = Len(matches) + 1]]
    /\ UNCHANGED <<tour, matches, gen>>
    /\ UNCHANGED <<mvars, svars>>

\* await Match.create({..., matchNumber, round: req.body.round || 1, ...,
\* ...matchData}), part_009:196-210.  matchData holds the other fields of the
\* request body and is spread last: a matchNumber in the body (given)
\* replaces the counted one.
MC_Create(p) ==
    /\ nr[p].pc = "manual"
    /\ \E given \in {None, 1} :
          LET cs == Confirmed(tour.participants)
              matchNumber == IF given # None THEN given ELSE nr[p].matchNumber
              data == MatchData(matchNumber, 1, <<"R", 1, nr[p].matchNumber>>,
                                cs[1], cs[2])
          IN matches' = Append(matches, StoredMatch(data, Len(matches) + 1))
    /\ nr' = [nr EXCEPT ![p].pc = "done", ![p].made = 1, ![p].out = "created"]
    /\ UNCHANGED <<tour, gen, calls>>
    /\ UNCHANGED <<mvars, svars>>

----------------------------------------------------------------------------
(* sockets/socketHandler, src/src/sockets/socketHandler.js.  The registry  *)
(* (activeConnections, matchRooms, tournamentRooms) is keyed by user id;   *)
(* the rooms of socket.io are per socket.                                  *)

\* Sessions (sockets, each with its own socket.id) and the user each one
\* authenticated as (socketHandler.js:14-35): user 1 holds two sessions,
\* numbered in the order they connect.
Sessions == {1, 2, 3}

SessionUser(s) == IF s = 3 THEN 2 ELSE 1

\* The match ids and the tournament id clients send (data.matchId,
\* data.tournamentId).
RequestedMatches == {1, 2}

TournamentId == 1

\* A socket.io room: match_<id>, tournament_<id>, user_<id>; a socket itself
\* for socket.emit.
Room(kind, id) == [kind |-> kind, id |-> id]

NoRoom == Room("none", 0)

\* A socket before its connection event.
NewSocket == [phase |-> "new", rooms |-> {}, pending |-> NoRoom]

EmptyMap == [k \in {} |-> {}]

\* if (!rooms.has(id)) rooms.set(id, new Set()); rooms.get(id).add(userId)
\* socketHandler.js:84-87, 159-162
AddToRoom(roomMap, id, userId) ==
    [k \in DOMAIN roomMap \cup {id} |->
        IF k = id
        THEN (IF id \in DOMAIN roomMap THEN roomMap[id] ELSE {}) \cup {userId}
        ELSE roomMap[k]]

\* rooms.get(id).delete(userId), and the entry with it when the Set is
\* empty: socketHandler.js:117-123
DeleteFromRoom(roomMap, id, userId) ==
    IF id \notin DOMAIN roomMap THEN roomMap
    ELSE IF roomMap[id] \ {userId} = {}
    THEN [k \in DOMAIN roomMap \ {id} |-> roomMap[k]]
    ELSE [roomMap EXCEPT ![id] = @ \ {userId}]

\* The removal of a disconnect stopped after the first group found.
RemoveFromRooms_FirstOnly(roomMap, userId) ==
    LET with == { k \in DOMAIN roomMap : userId \in roomMap[k] } IN
    IF with = {} THEN roomMap
    ELSE DeleteFromRoom(roomMap,
                        CHOOSE k \in with : \A l \in with : k <= l, userId)

\* rooms.forEach: delete the user from every Set that has it, and every
\* Set left empty from the Map: socketHandler.js:332-348, 351-359
RemoveFromRooms(roomMap, userId) ==
    [k \in { l \in DOMAIN roomMap : roomMap[l] \ {userId} # {} } |->
        roomMap[k] \ {userId}]

\* An emitted event: socket.to(room).emit reaches the sockets of the room
\* other than the sender; socket.emit reaches the sender.
Event(name, to, from, id, userId, members) ==
    [event |-> name, to |-> to, from |-> from, id |-> id, user |-> userId,
     members |-> members]

Self(s) == Room("socket", s)

\* role of the modelled users (socket.user.role)
Role(userId) == "user"

\* tournament.settings.allowSpectators, default true (README.md:579-582)
allowSpectators == TRUE

\* io.on('connection'), socketHandler.js:37-58
Connect(s) ==
    /\ sockets[s].phase = "new"
    /\ \A t \in Sessions :
          (t < s /\ SessionUser(t) = SessionUser(s)) => sockets[t].phase # "new"
    /\ sockets' = [sockets EXCEPT ![s].phase = "open",
                                  ![s].rooms = {Room("user", SessionUser(s))}]
    /\ activeConnections' =
          [u \in DOMAIN activeConnections \cup {SessionUser(s)} |->
              IF u = SessionUser(s) THEN s ELSE activeConnections[u]]
    /\ emitted' = {Event("connected", Self(s), s, None, SessionUser(s), {})}
    /\ UNCHANGED <<matchRooms, tournamentRooms>>
    /\ UNCHANGED <<mvars, bvars>>

\* socket.on('joinMatch') up to await Match.findById, socketHandler.js:61-66
\* socket.on('joinTournament') up to await Tournament.findById, 137-141
JoinBegin(s) ==
    /\ sockets[s].phase = "open"
    /\ sockets[s].pending = NoRoom
    /\ \E r \in { Room("match", id) : id \in RequestedMatches }
                \cup {Room("tournament", TournamentId)} :
          sockets' = [sockets EXCEPT ![s].pending = r]
    /\ emitted' = {}
    /\ UNCHANGED <<activeConnections, matchRooms, tournamentRooms>>
    /\ UNCHANGED <<mvars, bvars>>

\* socket.join(room): a socket that has disconnected is in no room.
Joined(sock, room) ==
    IF sock.phase = "open"
    THEN [sock EXCEPT !.rooms = @ \cup {room}, !.pending = NoRoom]
    ELSE [sock EXCEPT !.pending = NoRoom]

\* socket.on('joinMatch') from the document's arrival, socketHandler.js:68-109
JoinMatchEnd(s) ==
    LET id == sockets[s].pending.id
        userId == SessionUser(s)
    IN
    /\ sockets[s].pending.kind = "match"
    /\ IF id \notin DOMAIN matches
       THEN /\ emitted' = {Event("error", Self(s), s, id, userId, {})}
            /\ sockets' = [sockets EXCEPT ![s].pending = NoRoom]
            /\ UNCHANGED matchRooms
       ELSE IF userId \notin MatchUsers(matches[id]) /\ Role(userId) # "admin"
       THEN /\ emitted' = {Event("error", Self(s), s, id, userId, {})}
            /\ sockets' = [sockets EXCEPT ![s].pending = NoRoom]
            /\ UNCHANGED matchRooms
       ELSE /\ sockets' = [sockets EXCEPT ![s] = Joined(@, Room("match", id))]
            /\ matchRooms' = AddToRoom(matchRooms, id, userId)
            /\ emitted' =
                  { Event("userJoinedMatch", Room("match", id), s, id, userId, {}),
                    Event("matchJoined", Self(s), s, id, userId,
                          AddToRoom(matchRooms, id, userId)[id]) }
    /\ UNCHANGED <<activeConnections, tournamentRooms>>
    /\ UNCHANGED <<mvars, bvars>>

\* socket.on('joinTournament') from the document's arrival,
\* socketHandler.js:143-171
JoinTournamentEnd(s) ==
    LET id == sockets[s].pending.id
        userId == SessionUser(s)
        isParticipant == \E i \in DOMAIN tour.participants :
                             tour.participants[i].user = userId
    IN
    /\ sockets[s].pending.kind = "tournament"
    /\ IF ~isParticipant /\ Role(userId) # "admin" /\ ~allowSpectators
       THEN /\ emitted' = {Event("error", Self(s), s, id, userId, {})}
            /\ sockets' = [sockets EXCEPT ![s].pending = NoRoom]
            /\ UNCHANGED tournamentRooms
       ELSE /\ sockets' = [sockets EXCEPT ![s] = Joined(@, Room("tournament", id))]
            /\ tournamentRooms' = AddToRoom(tournamentRooms, id, userId)
            /\ emitted' =
                  { Event("tournamentJoined", Self(s), s, id, userId,
                          AddToRoom(tournamentRooms, id, userId)[id]) }
    /\ UNCHANGED <<activeConnections, matchRooms>>
    /\ UNCHANGED <<mvars, bvars>>

\* socket.on('leaveMatch'), socketHandler.js:112-134
LeaveMatch(s) ==
    /\ sockets[s].phase = "open"
    /\ \E id \in RequestedMatches :
          /\ sockets' = [sockets EXCEPT ![s].rooms = @ \ {Room("match", id)}]
          /\ matchRooms' = DeleteFromRoom(matchRooms, id, SessionUser(s))
          /\ emitted' = { Event("userLeftMatch", Room("match", id), s, id,
                                SessionUser(s), {}) }
    /\ UNCHANGED <<activeConnections, tournamentRooms>>
    /\ UNCHANGED <<mvars, bvars>>

\* socket.on('disconnect'), socketHandler.js:324-360; the socket has left
\* its rooms when the event fires.
Disconnect(s) ==
    LET userId == SessionUser(s) IN
    /\ sockets[s].phase = "open"
    /\ sockets' = [sockets EXCEPT ![s].phase = "closed", ![s].rooms = {}]
    /\ activeConnections' =
          [u \in DOMAIN activeConnections \ {userId} |-> activeConnections[u]]
    /\ matchRooms' = RemoveFromRooms(matchRooms, userId)
    /\ emitted' =
          { Event("userLeftMatch", Room("match", id), s, id, userId, {}) :
              id \in { k \in DOMAIN matchRooms : userId \in matchRooms[k] } }
    /\ tournamentRooms' = RemoveFromRooms(tournamentRooms, userId)
    /\ UNCHANGED <<mvars, bvars>>

\* No session yet, for the specifications without sockets.
SIdle ==
    /\ sockets = [s \in Sessions |-> NewSocket]
    /\ activeConnections = EmptyMap
    /\ matchRooms = EmptyMap
    /\ tournamentRooms = EmptyMap
    /\ emitted = {}

\* The match machine at rest, for the bracket specifications.
MIdle ==
    /\ db = NewMatch(1, 2)
    /\ pc = [h \in Handlers |-> "idle"]
    /\ req = [h \in Handlers |-> NoReq]
    /\ doc = [h \in Handlers |-> NoDoc]
    /\ res = [h \in Handlers |-> Outcome("none", "none", "none")]
    /\ now = 1
    /\ nreq = 0

\* No tournament, for the match specification.
BIdle ==
    /\ tour = NewTournament(0, "unseeded", "single_elimination")
    /\ matches = << >>
    /\ gen = IdleGen
    /\ nr = [p \in Callers |-> IdleCall]
    /\ calls = 0

vars == <<mvars, bvars, svars>>

Init == MInit /\ BIdle /\ SIdle
Next == MNext
Spec == Init /\ [][Next]_vars

\* The match engine with addParticipant among its operations.
NextJoin ==
    \/ \E h \in Handlers : Load(h)
    \/ \E h \in Handlers : SetReady(h)
    \/ \E h \in Handlers : Start(h)
    \/ \E h \in Handlers : End(h)
    \/ \E h \in Handlers : Chat(h)
    \/ \E h \in Handlers : Dispute(h)
    \/ Tick
    \/ \E h \in Handlers : LoadJoin(h)
    \/ \E h \in Handlers : AddParticipant(h)

SpecJoin == Init /\ [][NextJoin]_vars

\* The tournament the sessions belong to: a round robin of users 1, 2, 3,
\* generated in full with the shuffle leaving them in this order: matches
\* (1,2), (1,3), (2,3).
SocketTournament == NewTournament(3, "unseeded", "round_robin")

GeneratedMatches(t) ==
    LET plan == BuildBracket(t.type,
                    seedParticipants(Confirmed(t.participants),
                                     Identity(Len(Confirmed(t.participants)))),
                    Identity(Len(Confirmed(t.participants))))
    IN [k \in DOMAIN plan.created |-> StoredMatch(plan.created[k], k)]

InitSocket ==
    /\ MIdle
    /\ SIdle
    /\ matches = GeneratedMatches(SocketTournament)
    /\ tour = [SocketTournament EXCEPT !.rounds = organizeBracketRounds(matches)]
    /\ gen = IdleGen
    /\ nr = [p \in Callers |-> IdleCall]
    /\ calls = 0

NextSocket ==
    \/ \E s \in Sessions : Connect(s)
    \/ \E s \in Sessions : JoinBegin(s)
    \/ \E s \in Sessions : JoinMatchEnd(s)
    \/ \E s \in Sessions : JoinTournamentEnd(s)
    \/ \E s \in Sessions : LeaveMatch(s)
    \/ \E s \in Sessions : Disconnect(s)

SpecSocket == InitSocket /\ [][NextSocket]_vars

InitGen ==
    /\ MIdle
    /\ SIdle
    /\ \E type \in BracketTypes, cfg \in SeedConfigs :
       \E n \in 0..MaxOfType(type) : tour = NewTournament(n, cfg, type)
    /\ matches = << >>
    /\ gen = IdleGen
    /\ nr = [p \in Callers |-> IdleCall]
    /\ calls = 0

NextGen == GB_Begin \/ GB_Create \/ GB_End

SpecGen == InitGen /\ [][NextGen]_vars

AllUsers == 1..(MaxN + 1)

PlayMatch ==
    \E k \in DOMAIN matches, w \in AllUsers \cup {None} : CompleteMatch(k, w)

\* The tournaments round progression is explored on: <<type, N, seeding>>.
ProgressionTournaments ==
    { <<"single_elimination", 2, "unseeded">>,
      <<"single_elimination", 3, "unseeded">>,
      <<"single_elimination", 4, "seeded">>,
      <<"single_elimination", 6, "seeded">>,
      <<"swiss", 3, "unseeded">>,
      <<"swiss", 4, "seeded">>,
      <<"round_robin", 3, "seeded">> }

InitBracket ==
    /\ MIdle
    /\ SIdle
    /\ \E t \in ProgressionTournaments : tour = NewTournament(t[2], t[3], t[1])
    /\ matches = << >>
    /\ gen = IdleGen
    /\ nr = [p \in Callers |-> IdleCall]
    /\ calls = 0

NextBracket ==
    \/ GB_Begin
    \/ GB_Create
    \/ GB_End
    \/ PlayMatch
    \/ \E p \in Callers : NR_GetCurrentRound(p)
    \/ \E p \in Callers : NR_FindCompleted(p)
    \/ \E p \in Callers : NR_CountRound(p)
    \/ \E p \in Callers : NR_CountAll(p)
    \/ \E p \in Callers : NR_Create(p)
    \/ \E p \in Callers : NR_Return(p)

SpecBracket == InitBracket /\ [][NextBracket]_vars

\* The creators of a tournament's matches other than round progression:
\* generateBracket, called once or again, and the manual route.
NextCreate ==
    \/ GB_Begin
    \/ GB_Create
    \/ GB_End
    \/ GB_Again
    \/ \E p \in Callers : MC_Count(p)
    \/ \E p \in Callers : MC_Create(p)

\* The tournaments match creation is explored on: <<type, N, seeding>>.
CreateTournaments ==
    { <<"single_elimination", 2, "unseeded">>,
      <<"single_elimination", 3, "seeded">>,
      <<"round_robin", 3, "seeded">> }

InitCreate ==
    /\ MIdle
    /\ SIdle
    /\ \E t \in CreateTournaments : tour = NewTournament(t[2], t[3], t[1])
    /\ matches = << >>
    /\ gen = IdleGen
    /\ nr = [p \in Callers |-> IdleCall]
    /\ calls = 0

SpecCreate == InitCreate /\ [][NextCreate]_vars

----------------------------------------------------------------------------
(* Properties of the match state machine (checked under Spec) *)

\* Handler h has just finished a request of kind op.
Committed(h, op) == pc[h] = "loaded" /\ pc'[h] = "done" /\ req[h].op = op

SystemEntries(m, msgs) ==
    { i \in DOMAIN m.chat : m.chat[i].isSystemMessage /\ m.chat[i].message \in msgs }

CompletedMsgs ==
    {"Match completed! Winner: Player", "Match completed! Winner: Draw"}

\* C2: two concurrent Start calls on a ready match commit exactly one
\* ready -> ongoing transition: they never both succeed, and the match holds
\* at most one 'Match has started!' system chat entry.
C2_OneStartCommits ==
    /\ Cardinality(SystemEntries(db, {"Match has started!"})) <= 1
    /\ \A h1, h2 \in Handlers :
          (h1 # h2 /\ pc[h1] = "done" /\ pc[h2] = "done"
             /\ req[h1].op = "start" /\ req[h2].op = "start")
          => ~(res[h1].out = "ok" /\ res[h2].out = "ok")

\* C3: two concurrent End calls on an ongoing match commit at most one
\* ongoing -> completed transition: they never both succeed, and exactly one
\* completion chat entry is appended.
C3_OneEndCommits ==
    /\ Cardinality(SystemEntries(db, CompletedMsgs)) <= 1
    /\ \A h1, h2 \in Handlers :
          (h1 # h2 /\ pc[h1] = "done" /\ pc[h2] = "done"
             /\ req[h1].op = "end" /\ req[h2].op = "end")
          => ~(res[h1].out = "ok" /\ res[h2].out = "ok")

\* C5: once a dispute has been saved on an ongoing match (status disputed,
\* started, not ended), no later or pending engine operation moves the match
\* out of disputed.
C5_DisputedStays ==
    [][ (db.status = "disputed" /\ db.startedAt # None /\ db.endedAt = None)
        => db'.status = "disputed" ]_vars

\* C9: a set-ready(false) by a participant of a match in state ready puts
\* the match back to scheduled in that operation.
C9_UnreadyReverts ==
    [][ \A h \in Handlers :
          (Committed(h, "setReady") /\ ~req[h].ready /\ res'[h].out = "ok"
             /\ doc[h] = db /\ db.status = "ready")
          => db'.status = "scheduled" ]_vars

C11_SetReadyIdempotent ==
    \A u \in Users :
        LET once  == setParticipantReady(db, u, TRUE)
            twice == setParticipantReady(once.doc, u, TRUE)
        IN /\ twice.ok = once.ok
           /\ twice.doc.participants = once.doc.participants
           /\ twice.doc.status = once.doc.status

\* C11 witness: the same participant's set-ready(true) has been served twice,
\* both times successfully.
C11_Witness ==
    /\ \A h \in Handlers :
          /\ pc[h] = "done" /\ req[h].op = "setReady" /\ req[h].ready
          /\ res[h].out = "ok"
    /\ \A h1, h2 \in Handlers : req[h1].user = req[h2].user

\* C12: a Start commits only when the stored match is ready and every
\* participant is ready at that moment; any other Start fails with the
\* not-ready or not-all-ready error and leaves the status, the start
\* timestamp and the chat log as they were.
C12_StartPreconditions ==
    [][ \A h \in Handlers :
          Committed(h, "start")
          => /\ res'[h].out = "ok"
                  => (db.status = "ready" /\ allParticipantsReady(db))
             /\ res'[h].out # "ok"
                  => /\ res'[h].out \in {"Match is not ready to start",
                                          "Not all participants are ready"}
                     /\ db'.status = db.status
                     /\ db'.startedAt = db.startedAt
                     /\ db'.chat = db.chat ]_vars

\* C13: an End called on a match it finds in a status other than ongoing
\* fails with the not-ongoing error and leaves the status, winner, result,
\* end timestamp, scores and chat log unchanged.
C13_EndNotOngoing ==
    [][ \A h \in Handlers :
          (Committed(h, "end") /\ doc[h].status # "ongoing")
          => /\ res'[h].out = "Match is not ongoing"
             /\ db'.status = db.status
             /\ db'.winner = db.winner
             /\ db'.result = db.result
             /\ db'.endedAt = db.endedAt
             /\ db'.score = db.score
             /\ db'.chat = db.chat ]_vars

\* C13 witness: an End served on a match that was not ongoing has failed with
\* the not-ongoing error.
C13_Witness ==
    \E h \in Handlers :
        /\ pc[h] = "done" /\ req[h].op = "end"
        /\ res[h].out = "Match is not ongoing"
        /\ res[h].from # "ongoing" /\ res[h].to = res[h].from

\* C14: an End that commits with a result other than no_contest names a
\* winner who is one of the match's participants, and that winner is the one
\* recorded; an End naming an outsider or nobody is rejected.
C14_WinnerIsParticipant ==
    [][ \A h \in Handlers :
          (Committed(h, "end") /\ res'[h].out = "ok"
             /\ req[h].result # "no_contest")
          => /\ req[h].winner \in MatchUsers(db)
             /\ db'.winner = req[h].winner ]_vars

\* C15: an End with a valid winner that follows a Start leaves the match
\* completed, with the end time strictly after the start time and the
\* duration equal to the end time minus the start time.
C15_StartEndRoundTrip ==
    [][ \A h \in Handlers :
          (Committed(h, "end") /\ res'[h].out = "ok" /\ doc[h] = db
             /\ req[h].winner \in MatchUsers(db))
          => /\ db'.status = "completed"
             /\ db'.endedAt > db'.startedAt
             /\ db'.duration * MillisPerSecond = db'.endedAt - db'.startedAt
       ]_vars

C31_DisputeOnlyFromPlay ==
    [][ /\ (db'.status = "disputed" /\ db.status # "disputed")
           => db.status \in {"ongoing", "completed"}
        /\ \A h \in Handlers :
              (Committed(h, "dispute")
                 /\ db.status \in {"scheduled", "ready", "cancelled", "disputed"})
              => db' = db ]_vars

IsPrefix(a, b) == Len(a) <= Len(b) /\ SubSeq(b, 1, Len(a)) = a

\* C32: the chat log is append-only and FIFO: every step leaves the
\* committed entries where they were, and every committed addChatMessage,
\* Start and End puts exactly its own entry after them, however the
\* handlers interleave.
C32_ChatAppendOnly ==
    [][ /\ IsPrefix(db.chat, db'.chat)
        /\ \A h \in Handlers :
              (pc[h] = "loaded" /\ pc'[h] = "done" /\ res'[h].out = "ok"
                 /\ req[h].op \in {"chat", "start", "end"})
              => /\ Len(db'.chat) = Len(db.chat) + 1
                 /\ LET e == db'.chat[Len(db'.chat)] IN
                    CASE req[h].op = "chat" ->
                           e.user = req[h].user /\ ~e.isSystemMessage
                      [] req[h].op = "start" ->
                           e.isSystemMessage /\ e.message = "Match has started!"
                      [] OTHER ->
                           e.isSystemMessage /\ e.message \in CompletedMsgs ]_vars

\* C32 witness: a chat message has been committed while the other handler
\* holds a copy loaded before it and goes on to append to the chat itself.
C32_Witness ==
    \E h1, h2 \in Handlers :
        /\ pc[h1] = "done" /\ req[h1].op = "chat" /\ res[h1].out = "ok"
        /\ pc[h2] = "loaded" /\ req[h2].op \in {"chat", "start", "end"}
        /\ Len(doc[h2].chat) < Len(db.chat)

\* C35: when both participants of a scheduled match issue set-ready(true)
\* concurrently, then once both handlers have finished every participant is
\* ready and the match is ready: no update is lost and the match is not
\* left scheduled with all participants ready.
C35_ConcurrentReady ==
    (/\ nreq = 2
     /\ \A h \in Handlers :
           /\ pc[h] = "done" /\ req[h].op = "setReady" /\ req[h].ready
           /\ req[h].user = h
           /\ res[h].from = "scheduled")
    => /\ \A h \in Handlers : res[h].out = "ok"
       /\ allParticipantsReady(db)
       /\ db.status = "ready"

\* C39: in every reachable state a scheduled or ready match has no start
\* timestamp, no end timestamp, no winner and no result; an ongoing match
\* has a start timestamp and no end timestamp; a completed match has start
\* timestamp, end timestamp and result.
C39_StatusFields ==
    /\ db.status \in {"scheduled", "ready"}
       => /\ db.startedAt = None /\ db.endedAt = None
          /\ db.winner = None /\ db.result = "none"
    /\ db.status = "ongoing" => (db.startedAt # None /\ db.endedAt = None)
    /\ db.status = "completed"
       => (db.startedAt # None /\ db.endedAt # None /\ db.result # "none")

----------------------------------------------------------------------------
(* Properties of bracket generation (checked under SpecGen) *)

ConfirmedUsers ==
    { Confirmed(tour.participants)[i].user : i \in DOMAIN Confirmed(tour.participants) }

NumConfirmed == Len(Confirmed(tour.participants))

GenEnded == gen.pc \in {"done", "failed"}

\* C1: for N >= 2 confirmed participants, single-elimination generation
\* completes with exactly N - 1 Matches, each between confirmed participants
\* (no bye or placeholder).
C1_SingleEliminationCount ==
    (tour.type = "single_elimination" /\ NumConfirmed >= 2 /\ GenEnded)
    => /\ gen.pc = "done"
       /\ Len(matches) = NumConfirmed - 1
       /\ \A k \in DOMAIN matches : MatchUsers(matches[k]) \subseteq ConfirmedUsers

C8_RoundRobinRounds ==
    (tour.type = "round_robin" /\ gen.pc = "done")
    => /\ \A k, l \in DOMAIN matches :
             (k # l /\ matches[k].round = matches[l].round)
             => MatchUsers(matches[k]) \cap MatchUsers(matches[l]) = {}
       /\ \A r \in RoundNumbers(matches) :
             Cardinality({ k \in DOMAIN matches : matches[k].round = r })
                <= CeilHalf(NumConfirmed)

\* The places (round index, position) where the rounds structure lists
\* match id.
Listings(rounds, id) ==
    { <<i, j>> \in (DOMAIN rounds) \X (1..Len(matches)) :
        j \in DOMAIN rounds[i].matches /\ rounds[i].matches[j] = id }

\* C33: after a successful generateBracket the tournament's rounds are
\* numbered 1..R with no gap and no empty round, and every created Match is
\* listed in exactly one round, the one with the Match's round number.
C33_RoundsContiguous ==
    gen.pc = "done"
    => /\ \A i \in DOMAIN tour.rounds :
             /\ tour.rounds[i].roundNumber = i
             /\ tour.rounds[i].matches # << >>
       /\ \A k \in DOMAIN matches :
             /\ Cardinality(Listings(tour.rounds, matches[k].id)) = 1
             /\ \A x \in Listings(tour.rounds, matches[k].id) :
                   tour.rounds[x[1]].roundNumber = matches[k].round

\* C33 witness: a generation has succeeded with Matches in several rounds.
C33_Witness ==
    /\ gen.pc = "done"
    /\ Len(tour.rounds) >= 3
    /\ Len(matches) = 6

C17_InsufficientParticipants ==
    (gen.pc # "idle"
       /\ Cardinality({ i \in DOMAIN tour.participants :
                          tour.participants[i].status = "confirmed" }) < 2)
    => /\ gen.pc = "failed"
       /\ gen.error = "At least 2 confirmed participants required to generate bracket"
       /\ matches = << >>
       /\ tour.rounds = << >>

\* C17 witness: generation has failed on a tournament of one confirmed and
\* one registered participant.
C17_Witness ==
    /\ gen.pc = "failed"
    /\ gen.error = "At least 2 confirmed participants required to generate bracket"
    /\ Len(tour.participants) = 2 /\ NumConfirmed = 1
    /\ matches = << >>

\* C18: bracket generation is all-or-nothing: a generateBracket call that
\* has failed leaves no Match behind and the rounds unchanged, and at no
\* moment does the tournament hold bracket Matches without recorded rounds.
C18_AllOrNothing ==
    /\ gen.pc = "failed" => (matches = << >> /\ tour.rounds = << >>)
    /\ matches # << >> => tour.rounds # << >>

\* The user pairs of the matches of round r among ms, in order.
RECURSIVE PairsOfRound(_, _)
PairsOfRound(ms, r) ==
    IF ms = << >> THEN << >>
    ELSE (IF ms[1].round = r
          THEN << <<ms[1].participants[1].user, ms[1].participants[2].user>> >>
          ELSE << >>)
         \o PairsOfRound(Tail(ms), r)

\* The matches the generateBracket call creates in round r: those created
\* so far and those still to come.
PlannedPairs(r) == PairsOfRound(gen.made, r) \o PairsOfRound(gen.todo, r)

PlannedRounds ==
    { gen.made[k].round : k \in DOMAIN gen.made }
    \cup { gen.todo[k].round : k \in DOMAIN gen.todo }

\* C24: for every N >= 2, every slot list the single-elimination builder
\* carries into a next round has even length or length 1, and the pairing
\* loop never reads a missing second slot.
C24_EvenSlotLists ==
    (tour.type = "single_elimination" /\ NumConfirmed >= 2 /\ gen.pc # "idle")
    => /\ \A i \in 2..Len(gen.lists) :
             Len(gen.lists[i]) % 2 = 0 \/ Len(gen.lists[i]) = 1
       /\ gen.error # "TypeError"

\* What the claim says a round's slot list leaves for the next round: nothing
\* for two byes, the non-bye slot for one bye, the created match otherwise.
RECURSIVE AdvancedSlots(_)
AdvancedSlots(slots) ==
    IF Len(slots) < 2 THEN << >>
    ELSE LET a == slots[1]
             b == slots[2]
         IN (CASE a.kind = "bye" /\ b.kind = "bye" -> << >>
               [] a.kind = "bye" /\ b.kind # "bye" -> << b >>
               [] a.kind # "bye" /\ b.kind = "bye" -> << a >>
               [] OTHER -> << [kind |-> "matchRef", user |-> None, seed |-> None] >>)
            \o AdvancedSlots(SubSeq(slots, 3, Len(slots)))

\* The pairings of two real participants of a slot list, in order.
RECURSIVE RealPairs(_)
RealPairs(slots) ==
    IF Len(slots) < 2 THEN << >>
    ELSE (IF slots[1].kind = "participant" /\ slots[2].kind = "participant"
          THEN << <<slots[1].user, slots[2].user>> >>
          ELSE << >>)
         \o RealPairs(SubSeq(slots, 3, Len(slots)))

\* C25: in the single-elimination builder a pairing with exactly one bye
\* creates no Match and puts the non-bye slot, unchanged, into the next
\* round's slot list; the Matches of a round are exactly its pairings of two
\* real participants.
C25_ByeAdvance ==
    (tour.type = "single_elimination" /\ gen.pc # "idle")
    => /\ \A r \in 1..(Len(gen.lists) - 1) :
             /\ gen.lists[r + 1] = AdvancedSlots(gen.lists[r])
             /\ PlannedPairs(r) = RealPairs(gen.lists[r])
       /\ \A r \in PlannedRounds :
             /\ r \in DOMAIN gen.lists
             /\ \A k \in DOMAIN PlannedPairs(r) :
                   \E j \in DOMAIN RealPairs(gen.lists[r]) :
                       PlannedPairs(r)[k] = RealPairs(gen.lists[r])[j]

\* C25 witness: generation for 3 participants has ended with one Match and
\* the third participant advanced, as a participant slot, beside it.
C25_Witness ==
    /\ tour.type = "single_elimination" /\ NumConfirmed = 3 /\ GenEnded
    /\ Len(gen.made) = 1
    /\ Len(gen.lists) = 2 /\ Len(gen.lists[2]) = 2
    /\ gen.lists[2][1].kind = "matchRef"
    /\ gen.lists[2][2] = gen.lists[1][3]
    /\ gen.lists[2][2].kind = "participant"

IsPowerOfTwo(n) == \E e \in 0..n : 2 ^ e = n

\* C26: the single-elimination builder's first slot list is the N seeded
\* participants followed by byes carrying seeds N+1..M, M the smallest power
\* of two >= N (no bye when N is a power of two, 3 byes for N = 5);
\* round-robin and Swiss generation carry no bye: their Matches are between
\* confirmed participants only.
C26_ByePadding ==
    /\ (tour.type = "single_elimination" /\ NumConfirmed >= 2 /\ gen.pc # "idle")
       => LET slots == gen.lists[1]
              N == NumConfirmed
              M == Len(slots)
          IN /\ IsPowerOfTwo(M) /\ M >= N /\ M < 2 * N
             /\ \A i \in 1..N :
                   slots[i].kind = "participant" /\ slots[i].user \in ConfirmedUsers
             /\ \A i \in (N + 1)..M : slots[i].kind = "bye" /\ slots[i].seed = i
             /\ N = 5 => M - N = 3
    /\ (tour.type \in {"round_robin", "swiss"} /\ gen.pc # "idle")
       => /\ gen.lists = << >>
          /\ \A r \in PlannedRounds : \A k \in DOMAIN PlannedPairs(r) :
                /\ PlannedPairs(r)[k][1] \in ConfirmedUsers
                /\ PlannedPairs(r)[k][2] \in ConfirmedUsers

\* C26 witness: a single-elimination generation for 5 participants carries
\* 8 slots, the last three of them byes.
C26_Witness ==
    /\ tour.type = "single_elimination" /\ NumConfirmed = 5 /\ gen.pc # "idle"
    /\ Len(gen.lists[1]) = 8
    /\ \A i \in 6..8 : gen.lists[1][i].kind = "bye"

\* C27: when a confirmed participant carries a seed, the seeded order (the
\* participant slots of the builder's first list) is ascending by seed and
\* every participant without a seed comes after every seeded one.
C27_SeedOrder ==
    (tour.type = "single_elimination" /\ NumConfirmed >= 2 /\ gen.pc # "idle"
       /\ \E i \in DOMAIN tour.participants :
             /\ tour.participants[i].status = "confirmed"
             /\ tour.participants[i].seed # None)
    => \A i, j \in 1..NumConfirmed :
          i < j =>
            LET a == gen.lists[1][i].seed
                b == gen.lists[1][j].seed
            IN /\ (a # None /\ b # None) => a <= b
               /\ ~(a = None /\ b # None)

\* C30: every Match's bracket position label is R<round>-M<index> with
\* <round> the Match's round number, and no two Matches of the tournament
\* share a label.
C30_PositionLabels ==
    /\ \A k \in DOMAIN matches :
          /\ matches[k].bracketPosition[1] = "R"
          /\ matches[k].bracketPosition[2] = matches[k].round
    /\ \A k, l \in DOMAIN matches :
          k # l => matches[k].bracketPosition # matches[l].bracketPosition

----------------------------------------------------------------------------
(* Properties of the participant list (checked under SpecJoin) *)

\* Handler h's request of kind op is answered in this step.
Answers(h, op) == pc[h] = "loaded" /\ pc'[h] = "done" /\ req[h].op = op

ParticipantUsers(m) == [i \in DOMAIN m.participants |-> m.participants[i].user]

\* C34: in every reachable state a match in status ready has at least one
\* participant and all its participants are ready, whatever sequence of
\* setParticipantReady, addParticipant, startMatch, endMatch and
\* reportDispute led there.
C34_ReadyMeansAllReady ==
    db.status = "ready"
    => /\ Len(db.participants) >= 1
       /\ \A i \in DOMAIN db.participants : db.participants[i].status = "ready"

\* C21: addParticipant is rejected and leaves the participant list as it
\* was unless the match is scheduled and has fewer participants than its
\* configured count, which is at most 4; a join by a user who is already in
\* the match is rejected as already joined.
C21_JoinGuard ==
    [][ \A h \in Handlers :
          Answers(h, "join") =>
            /\ (db.status # "scheduled" \/ Len(db.participants) >= 4)
               => (res'[h].out # "ok" /\ db'.participants = db.participants)
            /\ FindParticipant(db, req[h].user) # 0
               => (res'[h].out = "User is already in this match"
                   /\ db'.participants = db.participants) ]_vars

\* C22: no engine operation changes the set or order of a created Match's
\* participant users, and setParticipantReady by user u leaves every other
\* participant's record as it was.
C22_ParticipantsFixed ==
    [][ /\ ParticipantUsers(db') = ParticipantUsers(db)
        /\ \A h \in Handlers :
              Answers(h, "setReady") =>
                \A i \in DOMAIN db.participants :
                    db.participants[i].user # req[h].user
                    => db'.participants[i] = db.participants[i] ]_vars

----------------------------------------------------------------------------
(* Properties of the session registry (checked under SpecSocket) *)

\* Session s disconnects in this step.
Disconnects(s) == sockets[s].phase = "open" /\ sockets'[s].phase = "closed"

\* C23: a session's disconnect removes its user from every match group and
\* every tournament group of the registry, emits userLeftMatch to each match
\* group the user was in, and changes no match's status and no
\* participant's readiness.
C23_DisconnectEffect ==
    [][ \A s \in Sessions :
          Disconnects(s) =>
            LET userId == SessionUser(s) IN
            /\ \A k \in DOMAIN matchRooms' : userId \notin matchRooms'[k]
            /\ \A k \in DOMAIN tournamentRooms' : userId \notin tournamentRooms'[k]
            /\ \A k \in DOMAIN matchRooms :
                  userId \in matchRooms[k]
                  => \E e \in emitted' :
                        /\ e.event = "userLeftMatch"
                        /\ e.to = Room("match", k)
                        /\ e.user = userId
            /\ matches' = matches
            /\ db' = db ]_vars

\* Session s is connected and in the socket.io room of match id.
InMatchRoom(s, id) ==
    sockets[s].phase = "open" /\ Room("match", id) \in sockets[s].rooms

\* C36: the registry agrees with the live sessions: a user is in
\* activeConnections exactly while one of the user's sessions is connected,
\* and in the registry group of match m exactly while one of the user's
\* connected sessions has joined m and not left it.
C36_RegistryAgrees ==
    \A u \in { SessionUser(s) : s \in Sessions } :
        /\ u \in DOMAIN activeConnections
           <=> \E s \in Sessions : SessionUser(s) = u /\ sockets[s].phase = "open"
        /\ \A id \in RequestedMatches :
              (id \in DOMAIN matchRooms /\ u \in matchRooms[id])
              <=> \E s \in Sessions : SessionUser(s) = u /\ InMatchRoom(s, id)

\* C23 witness: a session has disconnected whose user was in two match
\* groups and in the tournament group: both groups were told.
C23_Witness ==
    \E s \in Sessions :
        /\ sockets[s].phase = "closed"
        /\ \A id \in {1, 2} :
              Event("userLeftMatch", Room("match", id), s, id, SessionUser(s), {})
                  \in emitted
        /\ \A k \in DOMAIN matchRooms : SessionUser(s) \notin matchRooms[k]
        /\ \E k \in DOMAIN matchRooms : matchRooms[k] # {}

----------------------------------------------------------------------------
(* Properties of match creation (checked under SpecCreate) *)

\* C16: within a tournament, matchNumber is unique and strictly increasing
\* in creation order, whoever created the Matches.
C16_MatchNumbersIncrease ==
    \A k, l \in DOMAIN matches :
        k < l => matches[k].matchNumber < matches[l].matchNumber

----------------------------------------------------------------------------
(* Properties of round progression (checked under SpecBracket) *)

\* C28: round progression pairs the winners in ascending seed order, each
\* winner carrying forward its own seed: in a Match of a next round the two
\* seeds are in ascending order and each is the seed its user carried in
\* the round before.
C28_WinnersKeepSeed ==
    \A k \in DOMAIN matches :
        (matches[k].round >= 2 /\ tour.type = "single_elimination")
        => \A i \in {1, 2} :
              /\ matches[k].participants[1].seed <= matches[k].participants[2].seed
              /\ \E l \in DOMAIN matches : \E j \in {1, 2} :
                    /\ matches[l].round = matches[k].round - 1
                    /\ matches[l].participants[j].user = matches[k].participants[i].user
                    /\ matches[l].participants[j].seed = matches[k].participants[i].seed

\* The participants still in a single-elimination tournament: those who
\* have not lost a completed Match.
Remaining ==
    ConfirmedUsers \
        { u \in AllUsers :
            \E k \in DOMAIN matches :
                /\ matches[k].status = "completed"
                /\ matches[k].winner # None
                /\ u \in MatchUsers(matches[k])
                /\ u # matches[k].winner }

\* C29: generateNextRound reports the tournament complete only when fewer
\* than 2 slots remain after the completed round, creates no Match then, and
\* reports the sole remaining slot as the tournament winner.
C29_CompleteWhenOneRemains ==
    \A p \in Callers :
        (tour.type = "single_elimination"
           /\ nr[p].pc = "done" /\ nr[p].out = "completed"
           /\ \A k \in DOMAIN matches : matches[k].winner # None)
        => /\ Cardinality(Remaining) < 2
           /\ nr[p].made = 0
           /\ Remaining = {nr[p].winner}

MatchesOfRound(r) == { k \in DOMAIN matches : matches[k].round = r }

\* The Matches of round r that user u takes part in.
MatchesOf(u, r) ==
    { k \in DOMAIN matches : matches[k].round = r /\ u \in MatchUsers(matches[k]) }

\* C37: when a generateNextRound call has created a next round, every
\* winner of the completed round is a participant of exactly one Match of
\* the next round; none is left without a Match, also when the number of
\* winners is odd.
C37_EveryWinnerAdvances ==
    \A p \in Callers :
        (calls = 1 /\ nr[p].pc = "done" /\ nr[p].out = "next round")
        => \A k \in DOMAIN matches :
              (matches[k].round = nr[p].currentRound /\ matches[k].winner # None)
              => Cardinality(MatchesOf(matches[k].winner, nr[p].currentRound + 1)) = 1

\* C38: after generateNextRound has created the Matches of round r + 1,
\* the tournament's rounds hold a round numbered r + 1 that lists exactly
\* those Matches.
C38_RoundsFollowProgression ==
    \A p \in Callers :
        (gen.pc = "done" /\ calls = 1
           /\ nr[p].pc = "done" /\ nr[p].out = "next round")
        => \E i \in DOMAIN tour.rounds :
              /\ tour.rounds[i].roundNumber = nr[p].currentRound + 1
              /\ { tour.rounds[i].matches[j] : j \in DOMAIN tour.rounds[i].matches }
                 = { matches[k].id : k \in MatchesOfRound(nr[p].currentRound + 1) }

\* C19: a generateNextRound call that counts the current round's Matches
\* while one of them is not completed fails with the round-incomplete error
\* and has created no Match.
C19_RoundIncomplete ==
    [][ \A p \in Callers :
          (nr[p].pc = "count" /\ nr'[p].pc # "count"
             /\ \E k \in DOMAIN matches :
                   /\ matches[k].round = nr[p].currentRound
                   /\ matches[k].status # "completed")
          => /\ nr'[p].pc = "failed"
             /\ nr'[p].out = "Not all matches in current round are completed"
             /\ nr'[p].made = 0
             /\ matches' = matches ]_vars

\* C19 witness: a call has failed with the round-incomplete error while a
\* Match of its round is still scheduled, and has created nothing.
C19_Witness ==
    \E p \in Callers :
        /\ nr[p].pc = "failed"
        /\ nr[p].out = "Not all matches in current round are completed"
        /\ nr[p].made = 0
        /\ \E k \in DOMAIN matches :
              /\ matches[k].round = nr[p].currentRound
              /\ matches[k].status = "scheduled"


\* C4: of two generateNextRound attempts at the same round boundary only
\* one creates Matches; a round never holds two Matches with the same
\* pairing or the same match number.
C4_OneProgression ==
    /\ \A p, q \in Callers :
          (p # q /\ nr[p].made > 0 /\ nr[q].made > 0)
          => nr[p].currentRound # nr[q].currentRound
    /\ \A k, l \in DOMAIN matches :
          (k # l /\ matches[k].round = matches[l].round)
          => /\ MatchUsers(matches[k]) # MatchUsers(matches[l])
             /\ matches[k].matchNumber # matches[l].matchNumber

\* C6: 3 confirmed participants without seeds: single-elimination generation
\* creates exactly one Match, in round 1; once that Match is completed with
\* a winner, a generateNextRound call that returns has left exactly one
\* round-2 Match, between the round-1 winner and the bye-advanced participant.
C6_ThreeParticipants ==
    (tour.type = "single_elimination" /\ NumConfirmed = 3 /\ GenEnded
       /\ \A i \in DOMAIN tour.participants : tour.participants[i].seed = None)
    => /\ Len(gen.made) = 1
       /\ gen.made[1].round = 1
       /\ \A p \in Callers :
             (nr[p].pc = "done" /\ matches[1].winner # None)
             => /\ Cardinality(MatchesOfRound(2)) = 1
                /\ \A k \in MatchesOfRound(2) :
                      MatchUsers(matches[k]) =
                          {matches[1].winner}
                          \cup (ConfirmedUsers \ MatchUsers(matches[1]))

====
